---- MODULE Spec2Model ----
(***************************************************************************)
(* A model of sep.c: the greedy separation of a set of 2-D points by       *)
(* axis-parallel lines.  One process, one program counter (pc) walking     *)
(* through main(): read_instance_file, sort_points,                        *)
(* initialize_connections, div_axis(X), div_axis(Y), the greedy loop       *)
(* (check_con / commit on the X candidate, then on the Y candidate),       *)
(* serialize_solution and free_connections, once per instance file.        *)
(*                                                                         *)
(* Representation choices:                                                 *)
(*  - a pointer to points[k] is the index k; NULL in pt_connections is     *)
(*    FALSE, a non-NULL entry is TRUE;                                     *)
(*  - a pointer to x_lines[k] / y_lines[k] is the pair <<axis, k>>;        *)
(*  - a float is kept in half units (the float f is the integer 2*f):      *)
(*    the coordinates are small ints, so every float the program computes  *)
(*    is an exact multiple of 1/2;                                         *)
(*  - arrays are functions over 0..len-1, holding the slots below the      *)
(*    counter that guards them (n_pts, n_x_lines, n_y_lines, n_lines);     *)
(*    x_pt_taken / y_pt_taken are written and never read, and left out.    *)
(***************************************************************************)
EXTENDS Integers, Sequences, FiniteSets, TLC

\* ---------------------------------------------------------------- bounds
\* the largest number of coordinate pairs an instance file supplies
MaxN == 3
\* coordinates of the generated instance files are 0..MaxCoord
MaxCoord == 2
\* the number of instance files main() is followed through
MaxInst == 2
\* the largest generated instance whose points have pairwise distinct x and
\* pairwise distinct y
MaxDistinct == 5
\* the largest generated instance whose points lie on the diagonal
\* (0,0), (1,1), ...
MaxDiagonal == 8

\* ------------------------------------------------------ program constants
MAX_PTS == 100
X == 0
Y == 1

Axes == {X, Y}

\* ------------------------------------------------------------- the input
Pair == [x : 0..MaxCoord, y : 0..MaxCoord]

\* lexicographic order on coordinate pairs
PairLeq(a, b) == a.x < b.x \/ (a.x = b.x /\ a.y <= b.y)

\* 0-based array from a sequence
Arr(s) == [k \in 0..(Len(s) - 1) |-> s[k + 1]]

ALen(a) == Cardinality(DOMAIN a)

EmptyArr == Arr(<<>>)

\* The bodies of the instance files: up to MaxN pairs.  A point's index is
\* only its name, and sort_points may order equal coordinates in any way, so
\* the generated files list their pairs in lexicographic order.
PairLists ==
    UNION {{Arr(s) : s \in {t \in [1..n -> Pair] :
                     \A k \in 1..(n - 1) : PairLeq(t[k], t[k + 1])}} : n \in 0..MaxN}

\* the 4-point square (0,0), (0,3), (3,0), (3,3)
Square == Arr(<<[x |-> 0, y |-> 0], [x |-> 0, y |-> 3],
                [x |-> 3, y |-> 0], [x |-> 3, y |-> 3]>>)

\* The instances of n points with pairwise distinct x and pairwise distinct y:
\* x = 0..n-1 in file order, y any arrangement of 0..n-1.
DistinctLists ==
    UNION {{Arr([k \in 1..n |-> [x |-> k - 1, y |-> f[k]]]) :
              f \in {g \in [1..n -> 0..(n - 1)] :
                       \A a, b \in 1..n : a # b => g[a] # g[b]}} : n \in 1..MaxDistinct}

\* The instances of n points on the diagonal: (0,0), (1,1), ..., (n-1,n-1).
DiagonalLists ==
    {Arr([k \in 1..n |-> [x |-> k - 1, y |-> k - 1]]) : n \in 1..MaxDiagonal}

\* An instance file: absent (found = FALSE), empty (no header to scan), or a
\* header (the declared count) followed by coordinate pairs.
NoFile == [found |-> FALSE, empty |-> TRUE, header |-> 0, pairs |-> EmptyArr]

Files ==
    {NoFile}
    \cup {[found |-> TRUE, empty |-> TRUE, header |-> 0, pairs |-> EmptyArr]}
    \cup UNION {{[found |-> TRUE, empty |-> FALSE, header |-> d, pairs |-> p] :
                    p \in {q \in PairLists : ALen(q) \in {d - 1, d, d + 1}}} :
                 d \in 0..(MaxN + 1)}
    \cup {[found |-> TRUE, empty |-> FALSE, header |-> ALen(p), pairs |-> p] :
            p \in DistinctLists \cup DiagonalLists \cup {Square}}

VARIABLES
    pc,               \* where main() is
    instance_number,  \* main's instance_number
    inst,             \* the instance file read last
    file_status,      \* what read_instance_file returned
    n_pts,
    points,           \* points[k] = [pt_x, pt_y, pt_con_cnt]
    pt_connections,   \* pt_connections[i][j]: points[i].pt_connections[j] != NULL
    sorted_x_pt, sorted_y_pt,
    x_lines, y_lines, \* [ln_axis, ln_committed, ln_inter]
    all_lines,        \* pointers <<axis, k>> to x_lines[k] / y_lines[k]
    n_x_lines, n_y_lines, n_lines,
    rem_cons,
    clx, cly,         \* main's cursors
    out               \* the solution file written last: [n, lines]

vars == <<pc, instance_number, inst, file_status, n_pts, points, pt_connections,
          sorted_x_pt, sorted_y_pt, x_lines, y_lines, all_lines,
          n_x_lines, n_y_lines, n_lines, rem_cons, clx, cly, out>>

\* --------------------------------------------------------------- helpers
\* (float) of an int, in half units
ToFloat(i) == 2 * i

Coord(axis, pt) == IF axis = X THEN pt.pt_x ELSE pt.pt_y

SortedView(axis) == IF axis = X THEN sorted_x_pt ELSE sorted_y_pt

\* ls[i]->pt_self_ix: initialize_connections sets points[i].pt_self_ix = i
\* for every i < n_pts before anything reads it
pt_self_ix(p) == p

\* x_pt_compare / y_pt_compare
pt_compare(axis, p1, p2) ==
    IF Coord(axis, points[p1]) > Coord(axis, points[p2]) THEN 1
    ELSE IF Coord(axis, points[p1]) < Coord(axis, points[p2]) THEN -1
    ELSE 0

\* the orders in which the pointers of the set rest can follow one another
\* with no pointer before one the comparison function puts below it
RECURSIVE SortedOrders(_, _)
SortedOrders(axis, rest) ==
    IF rest = {} THEN {<<>>}
    ELSE UNION {{<<p>> \o t : t \in SortedOrders(axis, rest \ {p})} :
                  p \in {q \in rest : \A r \in rest : pt_compare(axis, q, r) <= 0}}

\* what qsort may leave in the pointer array: any arrangement of the n_pts
\* pointers that the comparison function calls ordered (the order of equal
\* elements is unspecified)
QsortResults(axis) == {Arr(t) : t \in SortedOrders(axis, 0..(n_pts - 1))}

Init ==
    /\ pc = "read"
    /\ instance_number = 1
    /\ inst = NoFile
    /\ file_status = "SUCCESS"
    /\ n_pts = 0
    /\ points = EmptyArr
    /\ pt_connections = EmptyArr
    /\ sorted_x_pt = EmptyArr
    /\ sorted_y_pt = EmptyArr
    /\ x_lines = EmptyArr
    /\ y_lines = EmptyArr
    /\ all_lines = EmptyArr
    /\ n_x_lines = 0
    /\ n_y_lines = 0
    /\ n_lines = 0
    /\ rem_cons = 0
    /\ clx = 0
    /\ cly = 0
    /\ out = [n |-> 0, lines |-> <<>>]

\* read_instance_file: the number of pairs its loop stores (it stops at
\* MAX_PTS)
pairs_read(f) == IF ALen(f.pairs) < MAX_PTS THEN ALen(f.pairs) ELSE MAX_PTS

\* read_instance_file's return value on file f
read_status(f) ==
    IF ~f.found THEN "READ_NOT_FOUND"
    ELSE IF f.empty THEN "READ_NO_POINTS"
    ELSE IF pairs_read(f) # f.header THEN "READ_N_POINTS_MORE_LESS"
    ELSE "SUCCESS"

\* main: while (instance_number < 100), read_instance_file and the switch on
\* its result (every error case exits)
ReadInstance ==
    /\ pc = "read"
    /\ instance_number <= MaxInst
    /\ \E f \in Files :
        /\ inst' = f
        /\ file_status' = read_status(f)
        /\ n_pts' = IF f.found /\ ~f.empty THEN f.header ELSE n_pts
        /\ points' = IF f.found /\ ~f.empty
                       THEN [k \in 0..(pairs_read(f) - 1) |->
                               [pt_x |-> f.pairs[k].x, pt_y |-> f.pairs[k].y,
                                pt_con_cnt |-> 0]]
                       ELSE points
        /\ sorted_x_pt' = IF read_status(f) = "SUCCESS"
                            THEN [j \in 0..(f.header - 1) |-> j] ELSE sorted_x_pt
        /\ sorted_y_pt' = IF read_status(f) = "SUCCESS"
                            THEN [j \in 0..(f.header - 1) |-> j] ELSE sorted_y_pt
        /\ pc' = IF read_status(f) = "SUCCESS" THEN "sort" ELSE "exit"
    /\ UNCHANGED <<instance_number, pt_connections, x_lines, y_lines, all_lines,
                   n_x_lines, n_y_lines, n_lines, rem_cons, clx, cly, out>>

\* sort_points
SortPoints ==
    /\ pc = "sort"
    /\ sorted_x_pt' \in QsortResults(X)
    /\ sorted_y_pt' \in QsortResults(Y)
    /\ pc' = "init"
    /\ UNCHANGED <<instance_number, inst, file_status, n_pts, points, pt_connections,
                   x_lines, y_lines, all_lines, n_x_lines, n_y_lines, n_lines,
                   rem_cons, clx, cly, out>>

\* the connectivity state the graph operations work on
Graph == [con |-> pt_connections, pts |-> points, rem |-> rem_cons]

\* initialize_connections, up to its consistency check: every pt_connections
\* array is allocated and filled, pt_con_cnt and rem_cons are counted up from
\* the values they hold
initialize_connections(g, n) ==
    [con |-> [i \in 0..(n - 1) |-> [j \in 0..(n - 1) |-> i # j]],
     pts |-> [i \in 0..(n - 1) |->
                [g.pts[i] EXCEPT !.pt_con_cnt = @ + (n - 1)]],
     rem |-> g.rem + n * (n - 1)]

\* initialize_connections with its check: exit(0) when rem_cons is not
\* n_pts*(n_pts-1)
InitializeConnections ==
    /\ pc = "init"
    /\ LET g == initialize_connections(Graph, n_pts)
       IN /\ pt_connections' = g.con
          /\ points' = g.pts
          /\ rem_cons' = g.rem
          /\ pc' = IF g.rem # n_pts * (n_pts - 1) THEN "fatal" ELSE "div_x"
    /\ UNCHANGED <<instance_number, inst, file_status, n_pts, sorted_x_pt, sorted_y_pt,
                   x_lines, y_lines, all_lines, n_x_lines, n_y_lines, n_lines,
                   clx, cly, out>>

\* div_axis taking the adjacent pair one position too low: ls[from+half-1]
\* and ls[from+half]
RECURSIVE div_axis_lowgap(_, _, _, _)
div_axis_lowgap(axis, from, to, ls) ==
    IF from = to THEN <<>>
    ELSE
      LET span == to - from
          half == IF span % 2 # 0 THEN (span - 1) \div 2 ELSE span \div 2
      IN IF span = 0 \/ span = 1 THEN <<>>
         ELSE IF half # 0
         THEN LET pta == ToFloat(Coord(axis, points[ls[from + half - 1]]))
                  ptb == ToFloat(Coord(axis, points[ls[from + half]]))
                  cur_ln == [ln_axis |-> axis, ln_inter |-> pta + (ptb - pta) \div 2,
                             ln_committed |-> 0]
              IN <<cur_ln>> \o
                 (IF span # 2
                    THEN div_axis_lowgap(axis, from, from + half, ls)
                         \o div_axis_lowgap(axis, from + half, to, ls)
                    ELSE <<>>)
         ELSE <<>>

\* div_axis placing the line on the lower of the two adjacent points instead
\* of midway between them
RECURSIVE div_axis_atpoint(_, _, _, _)
div_axis_atpoint(axis, from, to, ls) ==
    IF from = to THEN <<>>
    ELSE
      LET span == to - from
          half == IF span % 2 # 0 THEN (span - 1) \div 2 ELSE span \div 2
      IN IF span = 0 \/ span = 1 THEN <<>>
         ELSE IF half # 0
         THEN LET pta == ToFloat(Coord(axis, points[ls[from + half]]))
                  cur_ln == [ln_axis |-> axis, ln_inter |-> pta, ln_committed |-> 0]
              IN <<cur_ln>> \o
                 (IF span # 2
                    THEN div_axis_atpoint(axis, from, from + half, ls)
                         \o div_axis_atpoint(axis, from + half, to, ls)
                    ELSE <<>>)
         ELSE <<>>

\* div_axis bisecting, of the two halves of a range, only the lower one
RECURSIVE div_axis_lefthalf(_, _, _, _)
div_axis_lefthalf(axis, from, to, ls) ==
    IF from = to THEN <<>>
    ELSE
      LET span == to - from
          half == IF span % 2 # 0 THEN (span - 1) \div 2 ELSE span \div 2
      IN IF span = 0 \/ span = 1 THEN <<>>
         ELSE IF half # 0
         THEN LET pta == ToFloat(Coord(axis, points[ls[from + half]]))
                  ptb == ToFloat(Coord(axis, points[ls[from + (half + 1)]]))
                  cur_ln == [ln_axis |-> axis, ln_inter |-> pta + (ptb - pta) \div 2,
                             ln_committed |-> 0]
              IN <<cur_ln>> \o
                 (IF span # 2
                    THEN div_axis_lefthalf(axis, from, from + half, ls)
                    ELSE <<>>)
         ELSE <<>>

\* div_axis(axis, from, to) on the sorted view ls: the lines it stores, in the
\* order it stores them (each at the slot n_x_lines / n_y_lines has reached).
\* Called with from <= to.
RECURSIVE div_axis(_, _, _, _)
div_axis(axis, from, to, ls) ==
    IF from = to THEN <<>>
    ELSE
      LET span == to - from
          half == IF span % 2 # 0 THEN (span - 1) \div 2 ELSE span \div 2
      IN IF span = 0 \/ span = 1 THEN <<>>
         ELSE IF half # 0
         THEN LET pt1 == ls[from + half]
                  pt2 == ls[from + (half + 1)]
                  pta == ToFloat(Coord(axis, points[pt1]))
                  ptb == ToFloat(Coord(axis, points[pt2]))
                  ptdiff == ptb - pta
                  ptmid_dist == ptdiff \div 2
                  ptmid_coord == pta + ptmid_dist
                  cur_ln == [ln_axis |-> axis, ln_inter |-> ptmid_coord,
                             ln_committed |-> 0]
              IN <<cur_ln>> \o
                 (IF span # 2
                    THEN div_axis(axis, from, from + half, ls)
                         \o div_axis(axis, from + half, to, ls)
                    ELSE <<>>)
         ELSE <<>>

\* div_axis(axis, from, to): the ranges it bisects, in the order it stores
\* their lines: for each line the sorted position from+half below it (the line
\* lies between positions gap and gap+1) and the depth of the call that stored
\* it (0 for the call from main).  Called with from <= to.
RECURSIVE div_gaps(_, _, _)
div_gaps(from, to, level) ==
    IF from = to THEN <<>>
    ELSE
      LET span == to - from
          half == IF span % 2 # 0 THEN (span - 1) \div 2 ELSE span \div 2
      IN IF span = 0 \/ span = 1 THEN <<>>
         ELSE IF half # 0
         THEN <<[gap |-> from + half, level |-> level]>> \o
              (IF span # 2
                 THEN div_gaps(from, from + half, level + 1)
                      \o div_gaps(from + half, to, level + 1)
                 ELSE <<>>)
         ELSE <<>>

\* the line array after the lines new were stored from slot n on
Stored(lines, n, new) ==
    [k \in 0..(n + Len(new) - 1) |-> IF k < n THEN lines[k] ELSE new[k - n + 1]]

\* main: div_axis(X, 0, n_pts-1).  With n_pts = 0 the call is
\* div_axis(X, 0, -1): span = -1, half = -1, and the function reads ls[-1],
\* outside the array, then calls itself with the same arguments without end;
\* the process does not survive it.
DivAxisX ==
    /\ pc = "div_x"
    /\ IF n_pts = 0
         THEN /\ pc' = "crash"
              /\ UNCHANGED <<x_lines, n_x_lines>>
         ELSE LET new == div_axis(X, 0, n_pts - 1, sorted_x_pt)
              IN /\ x_lines' = Stored(x_lines, n_x_lines, new)
                 /\ n_x_lines' = n_x_lines + Len(new)
                 /\ pc' = "div_y"
    /\ UNCHANGED <<instance_number, inst, file_status, n_pts, points, pt_connections,
                   sorted_x_pt, sorted_y_pt, y_lines, all_lines, n_y_lines, n_lines,
                   rem_cons, clx, cly, out>>

\* main: div_axis(Y, 0, n_pts-1), then clx = 0, cly = 0
DivAxisY ==
    /\ pc = "div_y"
    /\ LET new == div_axis(Y, 0, n_pts - 1, sorted_y_pt)
       IN /\ y_lines' = Stored(y_lines, n_y_lines, new)
          /\ n_y_lines' = n_y_lines + Len(new)
    /\ clx' = 0
    /\ cly' = 0
    /\ pc' = "loop"
    /\ UNCHANGED <<instance_number, inst, file_status, n_pts, points, pt_connections,
                   sorted_x_pt, sorted_y_pt, x_lines, all_lines, n_x_lines, n_lines,
                   rem_cons, out>>

\* get_point_nearest_inter: the scan from position i on
RECURSIVE nearest_scan(_, _, _)
nearest_scan(axis, inter, i) ==
    IF i < n_pts
      THEN LET coord == ToFloat(Coord(axis, points[SortedView(axis)[i]]))
           IN IF coord > inter THEN i - 1 ELSE nearest_scan(axis, inter, i + 1)
      ELSE -1

get_point_nearest_inter(axis, inter) == nearest_scan(axis, inter, 0)

\* disconnect_points clearing only the entry of pt1
disconnect_points_oneway(g, pt1, pt2) ==
    IF g.con[pt1][pt2]
      THEN [con |-> [g.con EXCEPT ![pt1][pt2] = FALSE],
            pts |-> [g.pts EXCEPT ![pt1].pt_con_cnt = @ - 1,
                                  ![pt2].pt_con_cnt = @ - 1],
            rem |-> g.rem - 2]
      ELSE g

\* disconnect_points lowering the live-connection count of pt1 only
disconnect_points_nocnt(g, pt1, pt2) ==
    IF g.con[pt1][pt2]
      THEN [con |-> [g.con EXCEPT ![pt1][pt2] = FALSE, ![pt2][pt1] = FALSE],
            pts |-> [g.pts EXCEPT ![pt1].pt_con_cnt = @ - 1],
            rem |-> g.rem - 2]
      ELSE g

\* disconnect_points
disconnect_points(g, pt1, pt2) ==
    IF g.con[pt1][pt2]
      THEN [con |-> [g.con EXCEPT ![pt1][pt2] = FALSE, ![pt2][pt1] = FALSE],
            pts |-> [g.pts EXCEPT ![pt1].pt_con_cnt = @ - 1,
                                  ![pt2].pt_con_cnt = @ - 1],
            rem |-> g.rem - 2]
      ELSE g

\* the two nested loops of commit, from (i, j) on
RECURSIVE commit_loop(_, _, _, _, _)
commit_loop(g, ls, p, i, j) ==
    IF i <= p
      THEN IF j < n_pts
             THEN commit_loop(disconnect_points(g, pt_self_ix(ls[i]), pt_self_ix(ls[j])),
                              ls, p, i, j + 1)
             ELSE commit_loop(g, ls, p, i + 1, p + 1)
      ELSE g

\* commit disconnecting only the first connected pair across the line
commit_graph_one(g, l) ==
    LET p == get_point_nearest_inter(l.ln_axis, l.ln_inter)
        ls == SortedView(l.ln_axis)
        across == {e \in (0..p) \X ((p + 1)..(n_pts - 1)) : g.con[ls[e[1]]][ls[e[2]]]}
    IN IF across = {} THEN g
       ELSE LET e == CHOOSE f \in across :
                        \A h \in across : f[1] < h[1] \/ (f[1] = h[1] /\ f[2] <= h[2])
            IN disconnect_points(g, pt_self_ix(ls[e[1]]), pt_self_ix(ls[e[2]]))

\* commit disconnecting from the points beyond the line only the point
\* nearest to it on the low side
commit_graph_nearest(g, l) ==
    LET p == get_point_nearest_inter(l.ln_axis, l.ln_inter)
    IN commit_loop(g, SortedView(l.ln_axis), p, p, p + 1)

\* commit's effect on the graph for line l
commit_graph(g, l) ==
    LET p == get_point_nearest_inter(l.ln_axis, l.ln_inter)
    IN commit_loop(g, SortedView(l.ln_axis), p, 0, p + 1)

\* check_con looking only for points on both sides of the line, not for a
\* connection between them
check_con_sides(ln) ==
    IF get_point_nearest_inter(ln.ln_axis, ln.ln_inter) >= 0 THEN 1 ELSE 0

\* check_con looking at the live-connection counts of the points left of the
\* line instead of their connections across it
check_con_cnt(ln) ==
    LET p == get_point_nearest_inter(ln.ln_axis, ln.ln_inter)
        ls == SortedView(ln.ln_axis)
    IN IF p + 1 < n_pts /\ \E i \in 0..p : points[pt_self_ix(ls[i])].pt_con_cnt > 0
         THEN 1 ELSE 0

\* check_con
check_con(ln) ==
    LET p == get_point_nearest_inter(ln.ln_axis, ln.ln_inter)
        ls == SortedView(ln.ln_axis)
    IN IF \E i \in 0..p : \E j \in (p + 1)..(n_pts - 1) :
            pt_connections[pt_self_ix(ls[i])][pt_self_ix(ls[j])]
         THEN 1 ELSE 0

\* the test step with commit storing the line at the head of all_lines
TestLine_prepend(axis, lines, k) ==
    LET l == lines[k]
    IN IF check_con(l) # 0
         THEN LET g == commit_graph(Graph, l)
              IN /\ all_lines' = [j \in 0..n_lines |->
                                    IF j = 0 THEN <<axis, k>> ELSE all_lines[j - 1]]
                 /\ n_lines' = n_lines + 1
                 /\ pt_connections' = g.con
                 /\ points' = g.pts
                 /\ rem_cons' = g.rem
                 /\ IF axis = X
                      THEN /\ x_lines' = [x_lines EXCEPT ![k].ln_committed = 1]
                           /\ UNCHANGED y_lines
                      ELSE /\ y_lines' = [y_lines EXCEPT ![k].ln_committed = 1]
                           /\ UNCHANGED x_lines
         ELSE UNCHANGED <<all_lines, n_lines, pt_connections, points, rem_cons,
                          x_lines, y_lines>>

\* the test step with commit flagging every line of the axis up to the one
\* under test
TestLine_flagall(axis, lines, k) ==
    LET l == lines[k]
        flagged == [j \in DOMAIN lines |->
                      IF j <= k THEN [lines[j] EXCEPT !.ln_committed = 1] ELSE lines[j]]
    IN IF check_con(l) # 0
         THEN LET g == commit_graph(Graph, l)
              IN /\ all_lines' = (n_lines :> <<axis, k>>) @@ all_lines
                 /\ n_lines' = n_lines + 1
                 /\ pt_connections' = g.con
                 /\ points' = g.pts
                 /\ rem_cons' = g.rem
                 /\ IF axis = X
                      THEN /\ x_lines' = flagged
                           /\ UNCHANGED y_lines
                      ELSE /\ y_lines' = flagged
                           /\ UNCHANGED x_lines
         ELSE UNCHANGED <<all_lines, n_lines, pt_connections, points, rem_cons,
                          x_lines, y_lines>>

\* main: con = check_con(l); if (con) commit(l); for the line l at slot k of
\* the axis' array
TestLine(axis, lines, k) ==
    LET l == lines[k]
    IN IF check_con(l) # 0
         THEN LET g == commit_graph(Graph, l)
              IN /\ all_lines' = (n_lines :> <<axis, k>>) @@ all_lines
                 /\ n_lines' = n_lines + 1
                 /\ pt_connections' = g.con
                 /\ points' = g.pts
                 /\ rem_cons' = g.rem
                 /\ IF axis = X
                      THEN /\ x_lines' = [x_lines EXCEPT ![k].ln_committed = 1]
                           /\ UNCHANGED y_lines
                      ELSE /\ y_lines' = [y_lines EXCEPT ![k].ln_committed = 1]
                           /\ UNCHANGED x_lines
         ELSE UNCHANGED <<all_lines, n_lines, pt_connections, points, rem_cons,
                          x_lines, y_lines>>

\* main's loop condition
LoopCond == rem_cons # 0 /\ clx < n_x_lines /\ cly < n_y_lines

\* the X half of a round advancing its cursor only after a commit
TestX_stay ==
    /\ pc = "loop"
    /\ LoopCond
    /\ TestLine(X, x_lines, clx)
    /\ clx' = IF check_con(x_lines[clx]) # 0 THEN clx + 1 ELSE clx
    /\ pc' = "test_y"
    /\ UNCHANGED <<instance_number, inst, file_status, n_pts, sorted_x_pt, sorted_y_pt,
                   n_x_lines, n_y_lines, cly, out>>

\* the first half of a round: the X candidate
TestX ==
    /\ pc = "loop"
    /\ LoopCond
    /\ TestLine(X, x_lines, clx)
    /\ clx' = clx + 1
    /\ pc' = "test_y"
    /\ UNCHANGED <<instance_number, inst, file_status, n_pts, sorted_x_pt, sorted_y_pt,
                   n_x_lines, n_y_lines, cly, out>>

\* the second half of a round: the Y candidate
TestY ==
    /\ pc = "test_y"
    /\ TestLine(Y, y_lines, cly)
    /\ cly' = cly + 1
    /\ pc' = "loop"
    /\ UNCHANGED <<instance_number, inst, file_status, n_pts, sorted_x_pt, sorted_y_pt,
                   n_x_lines, n_y_lines, clx, out>>

\* the loop condition fails
LoopExit ==
    /\ pc = "loop"
    /\ ~LoopCond
    /\ pc' = "serialize"
    /\ UNCHANGED <<instance_number, inst, file_status, n_pts, points, pt_connections,
                   sorted_x_pt, sorted_y_pt, x_lines, y_lines, all_lines,
                   n_x_lines, n_y_lines, n_lines, rem_cons, clx, cly, out>>

\* the line a pointer of all_lines refers to
Deref(ptr) == IF ptr[1] = X THEN x_lines[ptr[2]] ELSE y_lines[ptr[2]]

\* printf("%f") of a float: the integer part and the six fraction digits
FormatF(f) == <<f \div 2, IF f % 2 = 1 THEN 500000 ELSE 0>>

\* serialize_solution: the count, then one "v"/"h" and position per line
serialize_solution ==
    [n |-> n_lines,
     lines |-> [i \in 1..n_lines |->
                  <<IF Deref(all_lines[i - 1]).ln_axis = X THEN "v" ELSE "h",
                    FormatF(Deref(all_lines[i - 1]).ln_inter)>>]]

SerializeSolution ==
    /\ pc = "serialize"
    /\ out' = serialize_solution
    /\ pc' = "free"
    /\ UNCHANGED <<instance_number, inst, file_status, n_pts, points, pt_connections,
                   sorted_x_pt, sorted_y_pt, x_lines, y_lines, all_lines,
                   n_x_lines, n_y_lines, n_lines, rem_cons, clx, cly>>

\* free_connections and instance_number++.  The four counters are zeroed;
\* rem_cons is not touched.  The slots the zeroed counters no longer cover,
\* the freed arrays and the locals of the loop body are dropped from the
\* state; inst and out turn to the files of the next instance.
FreeConnections ==
    /\ pc = "free"
    /\ n_pts' = 0
    /\ n_lines' = 0
    /\ n_x_lines' = 0
    /\ n_y_lines' = 0
    /\ instance_number' = instance_number + 1
    /\ pc' = "read"
    /\ points' = EmptyArr
    /\ pt_connections' = EmptyArr
    /\ sorted_x_pt' = EmptyArr
    /\ sorted_y_pt' = EmptyArr
    /\ x_lines' = EmptyArr
    /\ y_lines' = EmptyArr
    /\ all_lines' = EmptyArr
    /\ clx' = 0
    /\ cly' = 0
    /\ inst' = NoFile
    /\ out' = [n |-> 0, lines |-> <<>>]
    /\ UNCHANGED <<file_status, rem_cons>>

Next ==
    \/ ReadInstance
    \/ SortPoints
    \/ InitializeConnections
    \/ DivAxisX
    \/ DivAxisY
    \/ TestX
    \/ TestY
    \/ LoopExit
    \/ SerializeSolution
    \/ FreeConnections

Spec == Init /\ [][Next]_vars

\* ------------------------------------------------- vocabulary of the claims
PointIx == 0..(n_pts - 1)

\* the instance file was accepted by the loader and this instance runs
Accepted == pc \in {"sort", "init", "div_x", "div_y", "loop", "test_y",
                    "serialize", "free"}

\* initialize_connections has returned for this instance
AfterInit == pc \in {"div_x", "div_y", "loop", "test_y", "serialize", "free"}

\* the greedy loop of this instance is running
InLoop == pc \in {"loop", "test_y"}

\* the greedy loop of this instance has begun (and perhaps ended)
LoopBegun == pc \in {"loop", "test_y", "serialize", "free"}

\* the greedy loop of this instance has stopped
LoopStopped == pc \in {"serialize", "free"}

DistinctCoords ==
    \A i, j \in PointIx :
        i # j => points[i].pt_x # points[j].pt_x /\ points[i].pt_y # points[j].pt_y

\* the committed lines, as the output list holds them
CommittedLines == {Deref(all_lines[k]) : k \in 0..(n_lines - 1)}

\* point i has its coordinate <= the position of line l
LowSide(l, i) == ToFloat(Coord(l.ln_axis, points[i])) <= l.ln_inter

OppositeSides(l, i, j) == LowSide(l, i) # LowSide(l, j)

Separated(i, j) == \E l \in CommittedLines : OppositeSides(l, i, j)

\* C1: for an accepted instance with n >= 2 points, pairwise distinct x and
\* pairwise distinct y, when the greedy loop stops rem_cons is 0 and the
\* committed lines separate every pair of points.
C1_AllPairsSeparated ==
    (LoopStopped /\ n_pts >= 2 /\ DistinctCoords)
        => /\ rem_cons = 0
           /\ \A i, j \in PointIx : i # j => Separated(i, j)

\* C2: in every state of the greedy loop and at its end, two distinct points
\* are disconnected in the graph if and only if some committed line has them
\* on opposite sides.
C2_SeparationCorrect ==
    AfterInit =>
        \A i, j \in PointIx :
            i # j => (~pt_connections[i][j] <=> Separated(i, j))

\* one commit cleared two pairs (more than the pair that triggered it), and a
\* pair on one side of the line is still connected
C2_Witness ==
    /\ InLoop
    /\ n_lines = 1
    /\ rem_cons = n_pts * (n_pts - 1) - 4
    /\ rem_cons > 0

NonNullEntries ==
    Cardinality({e \in PointIx \X PointIx : pt_connections[e[1]][e[2]]})

DisconnectedPairs ==
    Cardinality({e \in PointIx \X PointIx :
                    e[1] < e[2] /\ ~pt_connections[e[1]][e[2]]})

\* C3: right after initialize_connections rem_cons is n*(n-1); after any
\* sequence of commits it is n*(n-1) minus twice the number of disconnected
\* unordered pairs, which is the number of non-NULL adjacency entries; it is
\* even and never negative.
C3_Conservation ==
    AfterInit =>
        /\ pc = "div_x" => rem_cons = n_pts * (n_pts - 1)
        /\ rem_cons = n_pts * (n_pts - 1) - 2 * DisconnectedPairs
        /\ rem_cons = NonNullEntries
        /\ rem_cons % 2 = 0
        /\ rem_cons >= 0

\* two commits have happened, the second cleared several pairs, and
\* connections remain
C3_Witness ==
    /\ LoopBegun
    /\ n_lines >= 2
    /\ DisconnectedPairs >= 4
    /\ rem_cons > 0

\* the candidates the cursors have not passed yet
Untested == (n_x_lines - clx) + (n_y_lines - cly)

\* C4: for any valid instance with n >= 1, duplicate coordinates included,
\* the greedy loop reaches a terminal state, DONE (rem_cons = 0) or EXHAUSTED
\* (the candidates consumed with rem_cons > 0), after no more test steps than
\* there are candidates on both axes: every test of a round reads a stored
\* candidate (so the round's step is defined), every test step consumes one
\* untested candidate, of which there are never fewer than 0, and the loop
\* stops only DONE or EXHAUSTED.
C4_Terminates ==
    /\ [](InLoop => /\ n_pts >= 1
                    /\ (pc = "loop" /\ LoopCond) => clx \in DOMAIN x_lines
                    /\ pc = "test_y" => cly < n_y_lines /\ cly \in DOMAIN y_lines
                    /\ Untested >= 0)
    /\ [](LoopBegun => clx + cly <= n_x_lines + n_y_lines)
    /\ [](pc = "serialize" =>
            \/ rem_cons = 0
            \/ rem_cons > 0 /\ clx = n_x_lines /\ cly = n_y_lines)
    /\ [][(InLoop /\ pc' \in {"loop", "test_y"}) => Untested' = Untested - 1]_vars

\* an instance with a duplicated coordinate that ended EXHAUSTED after its
\* candidates were tested
C4_Witness ==
    /\ pc = "serialize"
    /\ ~DistinctCoords
    /\ rem_cons > 0
    /\ clx + cly > 0
    /\ clx = n_x_lines
    /\ cly = n_y_lines

\* the pointers to the lines whose committed flag is set
CommittedPtrs ==
    {<<X, k>> : k \in {m \in 0..(n_x_lines - 1) : x_lines[m].ln_committed = 1}}
    \cup {<<Y, k>> : k \in {m \in 0..(n_y_lines - 1) : y_lines[m].ln_committed = 1}}

\* the place of a candidate in the order the loop tests them
TestRank(ptr) == 2 * ptr[2] + (IF ptr[1] = Y THEN 1 ELSE 0)

\* C5: all_lines[0..n_lines-1] holds exactly the committed lines, each once,
\* in the order they were committed: every commit appends the line under
\* test; a line with cursor index k precedes every line with a larger index,
\* and for equal index the X line precedes the Y line; the solution file
\* lists them in that order.
C5_OutputOrder ==
    /\ [](AfterInit =>
            /\ DOMAIN all_lines = 0..(n_lines - 1)
            /\ {all_lines[k] : k \in 0..(n_lines - 1)} = CommittedPtrs
            /\ \A a, b \in 0..(n_lines - 1) :
                  a < b => TestRank(all_lines[a]) < TestRank(all_lines[b])
            /\ pc = "free" =>
                  /\ out.n = n_lines
                  /\ Len(out.lines) = n_lines
                  /\ \A i \in 1..n_lines :
                        /\ out.lines[i][1] = "v" <=> all_lines[i - 1][1] = X
                        /\ out.lines[i][1] = "h" <=> all_lines[i - 1][1] = Y
                        /\ out.lines[i][2] = FormatF(Deref(all_lines[i - 1]).ln_inter))
    /\ [][(InLoop /\ n_lines' # n_lines) =>
            /\ n_lines' = n_lines + 1
            /\ \A k \in 0..(n_lines - 1) : all_lines'[k] = all_lines[k]
            /\ all_lines'[n_lines] = (IF pc = "loop" THEN <<X, clx>> ELSE <<Y, cly>>)]_vars

\* three lines were committed, X and Y lines among them, and written out
C5_Witness ==
    /\ pc = "free"
    /\ n_lines >= 3
    /\ out.n = n_lines
    /\ \E a, b \in 0..(n_lines - 1) : all_lines[a][1] = X /\ all_lines[b][1] = Y

\* C6: for an instance with exactly 2 points, exactly 1 candidate line is
\* generated, it is committed, the output has exactly 1 line and rem_cons
\* reaches 0.
C6_TwoPoints ==
    (LoopStopped /\ n_pts = 2)
        => /\ n_x_lines + n_y_lines = 1
           /\ n_lines = 1
           /\ Cardinality(CommittedPtrs) = 1
           /\ rem_cons = 0

\* C7: for the square (0,0), (0,3), (3,0), (3,3), whatever order the sort
\* gives to equal coordinates: two candidates on each axis, exactly 2 lines
\* committed, the vertical line at 1.5 then the horizontal line at 1.5, and
\* rem_cons = 0 at the end.
C7_Square ==
    (inst.pairs = Square /\ LoopStopped)
        => /\ n_x_lines = 2
           /\ n_y_lines = 2
           /\ n_lines = 2
           /\ all_lines = Arr(<< <<X, 0>>, <<Y, 0>> >>)
           /\ x_lines[0].ln_inter = 3
           /\ y_lines[0].ln_inter = 3
           /\ rem_cons = 0
           /\ pc = "free" =>
                 out = [n |-> 2, lines |-> << <<"v", <<1, 500000>> >>,
                                              <<"h", <<1, 500000>> >> >>]

\* the square was solved with both sorted views in another order than the
\* file's
C7_Witness ==
    /\ inst.pairs = Square
    /\ pc = "free"
    /\ sorted_x_pt # [j \in 0..3 |-> j]
    /\ sorted_y_pt # [j \in 0..3 |-> j]
    /\ sorted_x_pt # sorted_y_pt

\* C8: the loader returns an error, and the algorithm is not run, for every
\* input whose declared count differs from the number of pairs supplied and
\* for every input that declares zero points.
C8_LoaderRejects ==
    (inst.found /\ (inst.empty \/ inst.header = 0 \/ inst.header # ALen(inst.pairs)))
        => /\ file_status \in {"READ_NO_POINTS", "READ_N_POINTS_MORE_LESS"}
           /\ pc = "exit"

\* C9: whatever the previous instance ended as, the next instance starts with
\* rem_cons, the per-point connection counts, both candidate counts and the
\* committed-line count as in the first instance, so that after
\* initialize_connections rem_cons is n*(n-1) and the fatal check never fires.
C9_NoCarryOver ==
    /\ pc = "sort" =>
          /\ rem_cons = 0
          /\ n_x_lines = 0
          /\ n_y_lines = 0
          /\ n_lines = 0
          /\ \A i \in PointIx : points[i].pt_con_cnt = 0
    /\ pc # "fatal"

\* C10: within the greedy loop every commit lowers rem_cons by at least 2,
\* every discard leaves rem_cons and the whole graph unchanged, rem_cons never
\* increases, a disconnected pair is never reconnected, and no line is
\* committed once rem_cons is 0.
C10_Monotone ==
    [][InLoop =>
        /\ n_lines' # n_lines =>
              /\ n_lines' = n_lines + 1
              /\ rem_cons' <= rem_cons - 2
              /\ rem_cons # 0
        /\ n_lines' = n_lines =>
              /\ rem_cons' = rem_cons
              /\ pt_connections' = pt_connections
              /\ points' = points
        /\ rem_cons' <= rem_cons
        /\ \A i, j \in PointIx : ~pt_connections[i][j] => ~pt_connections'[i][j]]_vars

\* a round whose X line was committed and brought rem_cons to 0, and whose Y
\* line was then tested and discarded
C10_Witness ==
    /\ pc = "loop"
    /\ rem_cons = 0
    /\ clx > 0
    /\ cly > 0
    /\ x_lines[clx - 1].ln_committed = 1
    /\ y_lines[cly - 1].ln_committed = 0

\* ---------------------------------------------- the candidate sequences
\* the candidate array of an axis
Lines(axis) == IF axis = X THEN x_lines ELSE y_lines

NLines(axis) == IF axis = X THEN n_x_lines ELSE n_y_lines

\* the coordinate (in half units) of the point at sorted position k
SortedCoord(axis, k) == ToFloat(Coord(axis, points[SortedView(axis)[k]]))

\* div_axis has returned for this axis
Divided(axis) ==
    IF axis = X THEN pc \in {"div_y", "loop", "test_y", "serialize", "free"}
    ELSE LoopBegun

\* the sorted positions a line lies between: it is above position g and
\* below position g+1
GapsOf(axis, l) ==
    {g \in 0..(n_pts - 2) :
        SortedCoord(axis, g) < l.ln_inter /\ l.ln_inter < SortedCoord(axis, g + 1)}

\* the bisection level of the line between sorted positions g and g+1: the
\* depth of the div_axis call that bisects at g
LevelsOf(g) ==
    {r.level : r \in {q \in {div_gaps(0, n_pts - 1, 0)[k] :
                               k \in 1..Len(div_gaps(0, n_pts - 1, 0))} : q.gap = g}}

\* C11: the candidate sequence of each axis is in level order: the line that
\* bisects the whole range first, then the lines that bisect the halves, then
\* the quarters; no line of a deeper level precedes a line of a shallower one.
C11_LevelOrder ==
    \A axis \in Axes :
        (Divided(axis) /\ DistinctCoords) =>
            \A a, b \in 0..(NLines(axis) - 1) :
                a < b =>
                    \A ga \in GapsOf(axis, Lines(axis)[a]) :
                    \A gb \in GapsOf(axis, Lines(axis)[b]) :
                    \A la \in LevelsOf(ga) : \A lb \in LevelsOf(gb) : la <= lb

\* the position in the axis-sorted view of the last point whose coordinate is
\* <= inter, -1 when there is none
LastAtMost(axis, inter) ==
    LET at_most == {k \in PointIx : SortedCoord(axis, k) <= inter}
    IN IF at_most = {} THEN -1
       ELSE CHOOSE k \in at_most : \A m \in at_most : m <= k

\* the candidate line the loop is about to hand to check_con
UnderTest ==
    IF pc = "loop" /\ LoopCond THEN {x_lines[clx]}
    ELSE IF pc = "test_y" THEN {y_lines[cly]}
    ELSE {}

\* C12: get_point_nearest_inter returns the position in the axis-sorted view
\* of the last point whose coordinate is <= the given coordinate, and -1 if
\* and only if no point has a coordinate <= it (stated of the calls the
\* program makes: the position of the line under test).
C12_NearestLeft ==
    \A l \in UnderTest :
        get_point_nearest_inter(l.ln_axis, l.ln_inter) = LastAtMost(l.ln_axis, l.ln_inter)

\* the sorted position below the k-th line div_axis stores (the line's two
\* points are at sorted positions BisectedAt(k) and BisectedAt(k) + 1)
BisectedAt(k) == div_gaps(0, n_pts - 1, 0)[k + 1].gap

\* the line's position is the coordinate of some point on its axis
OnAPoint(l) == \E i \in PointIx : ToFloat(Coord(l.ln_axis, points[i])) = l.ln_inter

\* the line is midway between the points at sorted positions g and g+1
MidwayAt(axis, l, g) ==
    /\ g \in PointIx
    /\ g + 1 \in PointIx
    /\ 2 * l.ln_inter = SortedCoord(axis, g) + SortedCoord(axis, g + 1)

\* C13 as stated: for every accepted instance every candidate line is at the
\* midpoint of the points at the adjacent sorted positions from+half and
\* from+half+1 (both inside 0..n-1), lies strictly between the coordinates of
\* two distinct points and coincides with the coordinate of no point.
C13_StrictlyBetween ==
    \A axis \in Axes :
        Divided(axis) =>
            \A k \in 0..(NLines(axis) - 1) :
                LET l == Lines(axis)[k]
                IN /\ MidwayAt(axis, l, BisectedAt(k))
                   /\ \E i, j \in PointIx :
                         /\ ToFloat(Coord(axis, points[i])) < l.ln_inter
                         /\ l.ln_inter < ToFloat(Coord(axis, points[j]))
                   /\ ~OnAPoint(l)

\* C13: for every accepted instance with n >= 1, div_axis stores one line per
\* bisected range, each at the midpoint of the points at the adjacent sorted
\* positions from+half and from+half+1 (both inside 0..n-1); when those two
\* coordinates differ the line lies strictly between them and coincides with
\* the coordinate of no point; when they are equal the line lies on them.
C13_Midpoint ==
    [](\A axis \in Axes :
        Divided(axis) =>
            LET bisected == div_gaps(0, n_pts - 1, 0)
            IN /\ n_pts >= 1
               /\ NLines(axis) = Len(bisected)
               /\ \A k \in 0..(NLines(axis) - 1) :
                     LET l == Lines(axis)[k]
                         g == bisected[k + 1].gap
                     IN /\ g = BisectedAt(k)
                        /\ MidwayAt(axis, l, g)
                        /\ l.ln_axis = axis
                        /\ SortedCoord(axis, g) # SortedCoord(axis, g + 1) =>
                              /\ SortedCoord(axis, g) < l.ln_inter
                              /\ l.ln_inter < SortedCoord(axis, g + 1)
                              /\ ~OnAPoint(l)
                        /\ SortedCoord(axis, g) = SortedCoord(axis, g + 1) =>
                              l.ln_inter = SortedCoord(axis, g))

\* both axes are divided, the X line lies on two points of equal x, the Y
\* line lies strictly between two points of different y
C13_Witness ==
    /\ pc = "loop"
    /\ n_x_lines >= 1
    /\ n_y_lines >= 1
    /\ OnAPoint(x_lines[0])
    /\ ~OnAPoint(y_lines[0])
    /\ y_lines[0].ln_inter % 2 = 1

\* no candidate line carries the committed flag
NoneCommitted ==
    /\ \A k \in DOMAIN x_lines : x_lines[k].ln_committed = 0
    /\ \A k \in DOMAIN y_lines : y_lines[k].ln_committed = 0

\* the pointer to the line the loop is about to test
UnderTestPtr == IF pc = "loop" THEN <<X, clx>> ELSE <<Y, cly>>

\* the candidate arrays with the committed flag of the line at ptr set
Flagged(axis, ptr) ==
    IF ptr[1] = axis THEN [Lines(axis) EXCEPT ![ptr[2]].ln_committed = 1]
    ELSE Lines(axis)

\* C14: candidate generation is pure and complete before any commitment:
\* while the two div_axis calls run, the graph, rem_cons and the committed
\* list do not change and nothing is committed; once the loop has begun both
\* candidate sequences are complete, and until the instance is freed their
\* length, order and positions never change; a commit changes, of the
\* candidates, only the committed flag of the line under test, and a discard
\* changes no candidate.
C14_GenerationPure ==
    /\ []((pc \in {"div_x", "div_y"}) => (n_lines = 0 /\ NoneCommitted /\ clx = 0 /\ cly = 0))
    /\ [](LoopBegun => (/\ n_x_lines = Len(div_gaps(0, n_pts - 1, 0))
                        /\ n_y_lines = Len(div_gaps(0, n_pts - 1, 0))
                        /\ DOMAIN x_lines = 0..(n_x_lines - 1)
                        /\ DOMAIN y_lines = 0..(n_y_lines - 1)))
    /\ [][(pc \in {"div_x", "div_y"}) =>
            /\ pt_connections' = pt_connections
            /\ points' = points
            /\ rem_cons' = rem_cons
            /\ all_lines' = all_lines
            /\ n_lines' = n_lines
            /\ sorted_x_pt' = sorted_x_pt
            /\ sorted_y_pt' = sorted_y_pt]_vars
    /\ [][(LoopBegun /\ pc # "free") =>
            /\ n_x_lines' = n_x_lines
            /\ n_y_lines' = n_y_lines
            /\ DOMAIN x_lines' = DOMAIN x_lines
            /\ DOMAIN y_lines' = DOMAIN y_lines
            /\ \A k \in DOMAIN x_lines :
                  /\ x_lines'[k].ln_inter = x_lines[k].ln_inter
                  /\ x_lines'[k].ln_axis = x_lines[k].ln_axis
            /\ \A k \in DOMAIN y_lines :
                  /\ y_lines'[k].ln_inter = y_lines[k].ln_inter
                  /\ y_lines'[k].ln_axis = y_lines[k].ln_axis
            /\ (n_lines' # n_lines) =>
                  /\ Deref(UnderTestPtr).ln_committed = 0
                  /\ x_lines' = Flagged(X, UnderTestPtr)
                  /\ y_lines' = Flagged(Y, UnderTestPtr)
            /\ (n_lines' = n_lines) =>
                  /\ x_lines' = x_lines
                  /\ y_lines' = y_lines]_vars

\* a Y line was committed after an earlier Y line was discarded, and the loop
\* goes on with candidates still untested
C14_Witness ==
    /\ pc = "loop"
    /\ LoopCond
    /\ \E j, k \in 0..(cly - 1) :
          /\ j < k
          /\ y_lines[j].ln_committed = 0
          /\ y_lines[k].ln_committed = 1

\* the candidates the loop has tested so far
Tested ==
    {x_lines[k] : k \in 0..(clx - 1)} \cup {y_lines[k] : k \in 0..(cly - 1)}

\* every stored candidate
Candidates ==
    {x_lines[k] : k \in DOMAIN x_lines} \cup {y_lines[k] : k \in DOMAIN y_lines}

\* C15: the test of a line changes no state and depends only on the line,
\* the sorted views (with the coordinates they order) and the graph: a step
\* that leaves these alone leaves the result of check_con for every candidate
\* unchanged; a discard step changes nothing but the cursor, so the discarded
\* line tested again gives the same decision; the line just committed is
\* reported as not connected; and every line tested so far, discarded or
\* committed, is reported as not connected for as long as the loop runs.
C15_IdempotentDiscard ==
    /\ [](LoopBegun => \A l \in Tested : check_con(l) = 0)
    /\ [][(InLoop /\ pc' \in {"loop", "test_y"}) =>
            \A l \in {Deref(UnderTestPtr)} :
               /\ (n_lines' = n_lines) =>
                     /\ check_con(l) = 0
                     /\ UNCHANGED <<pt_connections, points, rem_cons, sorted_x_pt,
                                    sorted_y_pt, x_lines, y_lines, all_lines, n_pts,
                                    n_x_lines, n_y_lines>>
                     /\ check_con(l)' = 0
               /\ (n_lines' # n_lines) =>
                     /\ check_con(l) = 1
                     /\ check_con(l)' = 0]_vars
    /\ [][(/\ AfterInit
           /\ pt_connections' = pt_connections
           /\ sorted_x_pt' = sorted_x_pt
           /\ sorted_y_pt' = sorted_y_pt
           /\ n_pts' = n_pts
           /\ \A i \in PointIx : /\ points'[i].pt_x = points[i].pt_x
                                 /\ points'[i].pt_y = points[i].pt_y) =>
            \A l \in Candidates : check_con(l)' = check_con(l)]_vars

\* a round in which the X line was committed and the Y line discarded, with
\* connections left for later rounds
C15_Witness ==
    /\ pc = "loop"
    /\ LoopCond
    /\ clx > 0
    /\ cly > 0
    /\ x_lines[clx - 1].ln_committed = 1
    /\ y_lines[cly - 1].ln_committed = 0
    /\ \E l \in Tested : l.ln_committed = 0 /\ get_point_nearest_inter(l.ln_axis, l.ln_inter) >= 0

\* the points whose pt_connections arrays are allocated
Allocated == DOMAIN pt_connections

\* graph h is graph g with the pair {i, j} disconnected and nothing else
\* changed
PairCleared(g, h, i, j) ==
    /\ h.con = [g.con EXCEPT ![i][j] = FALSE, ![j][i] = FALSE]
    /\ h.pts = [g.pts EXCEPT ![i].pt_con_cnt = g.pts[i].pt_con_cnt - 1,
                             ![j].pt_con_cnt = g.pts[j].pt_con_cnt - 1]
    /\ h.rem = g.rem - 2
    /\ DOMAIN h = {"con", "pts", "rem"}

\* C16: in every reachable state (i,j) is connected iff (j,i) is;
\* disconnect_points(i,j) on a connected pair clears both entries, lowers
\* rem_cons by exactly 2 and the live-connection count of each of the two
\* points by exactly 1, and leaves the rest alone, the same in either
\* argument order; called on a disconnected pair, in either argument order,
\* it changes nothing, so a second call after the first changes nothing.
C16_DisconnectSymmetric ==
    [](\A i \in Allocated : \A j \in {k \in Allocated : k > i} :
        LET g == Graph
            h == disconnect_points(g, i, j)
        IN /\ pt_connections[i][j] <=> pt_connections[j][i]
           /\ IF pt_connections[i][j]
                THEN /\ PairCleared(g, h, i, j)
                     /\ disconnect_points(g, j, i) = h
                     /\ disconnect_points(h, i, j) = h
                     /\ disconnect_points(h, j, i) = h
                ELSE /\ h = g
                     /\ disconnect_points(g, j, i) = g)

\* the loop runs with a point that is disconnected from one point and still
\* connected to another
C16_Witness ==
    /\ InLoop
    /\ \E i, j, k \in PointIx :
          /\ i # j
          /\ i # k
          /\ ~pt_connections[i][j]
          /\ pt_connections[i][k]

\* the sorted positions div_axis(axis, 0, n_pts-1) bisects at, one per line
\* it stores
BisectedGaps == {BisectedAt(k) : k \in 0..(Len(div_gaps(0, n_pts - 1, 0)) - 1)}

\* C17: the candidate sequence depends in shape only on n: once div_axis has
\* returned for an axis it has stored n-2 lines for n >= 3 and none for
\* n <= 2, one line for each gap between sorted positions k and k+1 with
\* 1 <= k <= n-2, each gap once, and none for the gap between positions 0 and
\* 1; so in the loop n_x_lines = n_y_lines, the cursors are equal at the start
\* of every round and reach the end in the same round, and no test reads a
\* slot at or beyond n_x_lines or n_y_lines.
C17_CandidateShape ==
    [](/\ \A axis \in Axes :
             Divided(axis) =>
                LET bisected == div_gaps(0, n_pts - 1, 0)
                    gaps == {bisected[k].gap : k \in 1..Len(bisected)}
                    distinct == DistinctCoords
                IN /\ NLines(axis) = (IF n_pts >= 3 THEN n_pts - 2 ELSE 0)
                   /\ DOMAIN Lines(axis) = 0..(NLines(axis) - 1)
                   /\ NLines(axis) = Len(bisected)
                   /\ gaps = BisectedGaps
                   /\ gaps = 1..(n_pts - 2)
                   /\ Cardinality(gaps) = NLines(axis)
                   /\ \A k \in 0..(NLines(axis) - 1) :
                         /\ MidwayAt(axis, Lines(axis)[k], bisected[k + 1].gap)
                         /\ distinct =>
                               GapsOf(axis, Lines(axis)[k]) = {bisected[k + 1].gap}
                   /\ distinct =>
                         /\ UNION {GapsOf(axis, Lines(axis)[k]) :
                                     k \in 0..(NLines(axis) - 1)} = 1..(n_pts - 2)
                         /\ \A k \in 0..(NLines(axis) - 1) :
                               0 \notin GapsOf(axis, Lines(axis)[k])
       /\ LoopBegun =>
             /\ n_x_lines = n_y_lines
             /\ pc # "test_y" => clx = cly
             /\ pc = "test_y" => (clx = cly + 1 /\ cly < n_y_lines /\ clx <= n_x_lines)
             /\ (pc = "loop" /\ LoopCond) => clx < n_x_lines
             /\ (clx = n_x_lines /\ pc # "test_y") <=> (cly = n_y_lines))

\* five or more points with distinct coordinates: both cursors came to the
\* end in the same round, with connections left
C17_Witness ==
    /\ pc = "loop"
    /\ DistinctCoords
    /\ n_pts >= 5
    /\ clx = n_x_lines
    /\ cly = n_y_lines
    /\ rem_cons > 0

\* i and j are the same point or still connected
StillConnected(i, j) == i = j \/ pt_connections[i][j]

\* the points still connected to point i, and i itself
Class(i) == {j \in PointIx : StillConnected(i, j)}

Classes == {Class(i) : i \in PointIx}

\* C18: in every state of an instance's greedy loop 'still connected'
\* together with identity is an equivalence relation on the points; each
\* commit splits at least one of its classes, none is ever merged, so there
\* are at least n_lines + 1 classes and never more than n-1 committed lines,
\* though 2*(n-2) candidates exist for n >= 3; with n <= MAX_PTS every write
\* to all_lines[n_lines] is inside the array.
C18_ClassesBound ==
    /\ [](LoopBegun =>
            /\ \A i, j \in PointIx : StillConnected(i, j) => StillConnected(j, i)
            /\ \A i, j, k \in PointIx :
                  (StillConnected(i, j) /\ StillConnected(j, k)) => StillConnected(i, k)
            /\ Cardinality(Classes) >= n_lines + 1
            /\ Cardinality(Classes) <= n_pts
            /\ n_lines <= n_pts - 1
            /\ n_pts <= MAX_PTS
            /\ n_pts >= 3 => n_x_lines + n_y_lines = 2 * (n_pts - 2))
    /\ [][(InLoop /\ n_lines' # n_lines) =>
            /\ n_lines < MAX_PTS
            /\ n_lines <= n_pts - 2
            /\ DOMAIN all_lines' = 0..n_lines
            /\ Cardinality(Classes') > Cardinality(Classes)
            /\ \E i \in PointIx : Class(i)' # Class(i)
            /\ \A i \in PointIx : Class(i)' \subseteq Class(i)]_vars

\* four or more points, all separated by the n-1 lines the bound allows
C18_Witness ==
    /\ pc = "loop"
    /\ n_pts >= 4
    /\ n_lines = n_pts - 1
    /\ Cardinality(Classes) = n_pts
====
